---- MODULE Spec2Model ----
(***************************************************************************)
(* csv_multipart_parser.py: the tabular transform `read` (a pandas         *)
(* pipeline over a CSV stream) and the adapter CSVMultiPartParser.parse.   *)
(*                                                                         *)
(* Text is a sequence of one-character strings, so that strip() and        *)
(* lower() are computed and not assumed.  A CSV stream is a sequence of    *)
(* lines, a line a sequence of raw fields, and a read position.            *)
(***************************************************************************)
EXTENDS Integers, Sequences, FiniteSets, TLC

VARIABLES
    stream,      \* the caller's stream object: [lines, pos]
    call,        \* the latest call of read: its arguments, and where the stream stood
    data_frame,  \* read's local data_frame when it reaches line 91
    tried,       \* the raw column names for which line 56 was executed
    ret,         \* what the latest call of read returned or raised
    ncalls,      \* how many times read was called on the stream
    request,     \* the multipart request handed to parse
    parse_ret,   \* what parse returned or raised
    read_log     \* the parts parse handed to read, in call order

vars == <<stream, call, data_frame, tried, ret, ncalls, request, parse_ret, read_log>>

-----------------------------------------------------------------------------
(* Bounds *)

MaxRows == 2
MaxCalls == 2
MaxParts == 3

-----------------------------------------------------------------------------
(* Text *)

Digits == {"0", "1", "2", "3", "4", "5", "6", "7", "8", "9"}

DigitVal(c) ==
    CASE c = "0" -> 0 [] c = "1" -> 1 [] c = "2" -> 2 [] c = "3" -> 3
      [] c = "4" -> 4 [] c = "5" -> 5 [] c = "6" -> 6 [] c = "7" -> 7
      [] c = "8" -> 8 [] c = "9" -> 9

IsSpace(c) == c \in {" ", "\t"}

\* str.lower() on one character
LowerChar(c) ==
    CASE c = "A" -> "a" [] c = "C" -> "c" [] c = "D" -> "d" [] c = "E" -> "e"
      [] c = "F" -> "f" [] c = "H" -> "h" [] c = "I" -> "i" [] c = "L" -> "l"
      [] c = "N" -> "n" [] c = "S" -> "s" [] c = "Z" -> "z"
      [] OTHER -> c

Lower(s) == [i \in 1..Len(s) |-> LowerChar(s[i])]

RECURSIVE LStrip(_)
LStrip(s) == IF s # <<>> /\ IsSpace(Head(s)) THEN LStrip(Tail(s)) ELSE s

RECURSIVE RStrip(_)
RStrip(s) ==
    IF s # <<>> /\ IsSpace(s[Len(s)]) THEN RStrip(SubSeq(s, 1, Len(s) - 1)) ELSE s

\* str.strip()
Strip(s) == RStrip(LStrip(s))

\* str.endswith(suffix)
EndsWith(s, suffix) ==
    /\ Len(s) >= Len(suffix)
    /\ SubSeq(s, Len(s) - Len(suffix) + 1, Len(s)) = suffix

IdSuffix == <<"_", "i", "d">>
FalseToken == <<"f", "a", "l", "s", "e">>

IsDigits(s) == s # <<>> /\ \A i \in 1..Len(s) : s[i] \in Digits

RECURSIVE DigitsVal(_)
DigitsVal(s) ==
    IF s = <<>> THEN 0 ELSE 10 * DigitsVal(SubSeq(s, 1, Len(s) - 1)) + DigitVal(s[Len(s)])

-----------------------------------------------------------------------------
(* Cell values: a string, an integer, a float (n is the value in tenths), a  *)
(* boolean (n is 0 or 1) or the missing marker NaN.                          *)

StrV(s) == [t |-> "str", s |-> s, n |-> 0]
IntV(n) == [t |-> "int", s |-> <<>>, n |-> n]
FloatV(tenths) == [t |-> "float", s |-> <<>>, n |-> tenths]
BoolV(b) == [t |-> "bool", s |-> <<>>, n |-> IF b THEN 1 ELSE 0]
NaN == [t |-> "nan", s |-> <<>>, n |-> 0]

IsNa(v) == v.t = "nan"

-----------------------------------------------------------------------------
(* pandas.read_csv(stream, skipinitialspace=True) *)

\* the tokenizer drops the whitespace that follows a delimiter
Token(field) == LStrip(field)

\* the reader's default na_values (the two that occur here)
NaTokens == {<<>>, <<"N", "A">>}

TrueTokens == {<<"T", "r", "u", "e">>, <<"T", "R", "U", "E">>, <<"t", "r", "u", "e">>}
FalseTokens == {<<"F", "a", "l", "s", "e">>, <<"F", "A", "L", "S", "E">>, <<"f", "a", "l", "s", "e">>}

IsNaTok(tok) == tok \in NaTokens
\* the numeric converters accept trailing blanks
IsIntTok(tok) == IsDigits(RStrip(tok))
IsFloatTok(tok) ==
    LET s == RStrip(tok) IN
    /\ Len(s) >= 3
    /\ s[Len(s) - 1] = "."
    /\ s[Len(s)] \in Digits
    /\ IsDigits(SubSeq(s, 1, Len(s) - 2))
IsBoolTok(tok) == tok \in TrueTokens \cup FalseTokens

IntOf(tok) == DigitsVal(RStrip(tok))
TenthsOf(tok) ==
    LET s == RStrip(tok) IN
    IF IsIntTok(tok) THEN 10 * DigitsVal(s)
    ELSE 10 * DigitsVal(SubSeq(s, 1, Len(s) - 2)) + DigitVal(s[Len(s)])

\* the dtype the reader infers for a column from its tokens
InferDtype(toks) ==
    LET present == {i \in 1..Len(toks) : ~IsNaTok(toks[i])}
        anyNa == \E i \in 1..Len(toks) : IsNaTok(toks[i])
    IN  IF toks = <<>> THEN "object"
        ELSE IF \A i \in present : IsIntTok(toks[i])
        THEN (IF anyNa THEN "float" ELSE "int")
        ELSE IF \A i \in present : IsIntTok(toks[i]) \/ IsFloatTok(toks[i])
        THEN "float"
        ELSE IF \A i \in present : IsBoolTok(toks[i])
        THEN (IF anyNa THEN "object" ELSE "bool")
        ELSE "object"

\* one token converted under the column's inferred dtype
ConvertToken(tok, dtype, allBool) ==
    IF IsNaTok(tok) THEN NaN
    ELSE IF dtype = "int" THEN IntV(IntOf(tok))
    ELSE IF dtype = "float" THEN FloatV(TenthsOf(tok))
    ELSE IF dtype = "bool" \/ allBool THEN BoolV(tok \in TrueTokens)
    ELSE StrV(tok)

Ok(frame) == [kind |-> "ok", exc |-> "", frame |-> frame]
NoFrame == [columns |-> <<>>, dtypes |-> <<>>, rows |-> <<>>]
Raise(exc) == [kind |-> "raise", exc |-> exc, frame |-> NoFrame]

\* A frame: column labels, column dtypes and the rows, each with its index
\* label (its position among the data rows of the file) and its cells.
read_csv(lines) ==
    IF lines = <<>> THEN Raise("EmptyDataError")
    ELSE
      LET header == lines[1]
          n == Len(lines) - 1
          w == Len(header)
          tok(i, j) == Token(lines[i + 1][j])
          coltoks(j) == [i \in 1..n |-> tok(i, j)]
          dtype(j) == InferDtype(coltoks(j))
          allBool(j) ==
              \A i \in 1..n : IsNaTok(tok(i, j)) \/ IsBoolTok(tok(i, j))
      IN  IF \E i \in 1..n : Len(lines[i + 1]) > w
          THEN Raise("ParserError")
          ELSE Ok([columns |-> [j \in 1..w |-> Token(header[j])],
                   dtypes |-> [j \in 1..w |-> dtype(j)],
                   rows |-> [i \in 1..n |->
                               [idx |-> i,
                                cells |-> [j \in 1..w |->
                                   ConvertToken(tok(i, j), dtype(j), allBool(j))]]]])

-----------------------------------------------------------------------------
(* read, lines 52-113 *)

\* the slip how='any': a row stays only when every cell of it is present
KeepRowAny(row) == \A j \in 1..Len(row.cells) : ~IsNa(row.cells[j])

\* DataFrame.dropna(how='all'): a row stays when some cell of it is present
KeepRow(row) == \E j \in 1..Len(row.cells) : ~IsNa(row.cells[j])

dropna_all(frame) == [frame EXCEPT !.rows = SelectSeq(frame.rows, KeepRow)]

\* the slip of testing the suffix on the trimmed label
IsIdColumnStripped(column) == EndsWith(Strip(column), IdSuffix)

\* line 55: the test is made on the label as parsed, before line 66 renames
IsIdColumn(column) == EndsWith(column, IdSuffix)

\* int(x) for one cell, as Series.astype(int) applies it
CanCastInt(v) ==
    CASE v.t = "int" -> TRUE
      [] v.t = "float" -> TRUE
      [] v.t = "bool" -> TRUE
      [] v.t = "str" -> IsDigits(Strip(v.s))
      [] OTHER -> FALSE

CastInt(v) ==
    CASE v.t = "float" -> IntV(v.n \div 10)
      [] v.t = "bool" -> IntV(v.n)
      [] v.t = "str" -> IntV(DigitsVal(Strip(v.s)))
      [] OTHER -> v

\* astype(int) builds a new column or raises; it never converts in part
ColumnCasts(frame, j) == \A i \in 1..Len(frame.rows) : CanCastInt(frame.rows[i].cells[j])

\* the slip of converting cell by cell, each value that can be
coerce_ids_per_cell(frame) ==
    [frame EXCEPT !.rows =
        [i \in 1..Len(frame.rows) |->
            [idx |-> frame.rows[i].idx,
             cells |-> [j \in 1..Len(frame.columns) |->
                          IF /\ EndsWith(frame.columns[j], IdSuffix)
                             /\ CanCastInt(frame.rows[i].cells[j])
                          THEN CastInt(frame.rows[i].cells[j])
                          ELSE frame.rows[i].cells[j]]]]]

\* lines 53-58
Converted(frame, j) == IsIdColumn(frame.columns[j]) /\ ColumnCasts(frame, j)

\* (line 56 assigns the new column over the old one, which takes its dtype)
coerce_ids(frame) ==
    [columns |-> frame.columns,
     dtypes |-> [j \in 1..Len(frame.columns) |->
                   IF Converted(frame, j) THEN "int" ELSE frame.dtypes[j]],
     rows |-> [i \in 1..Len(frame.rows) |->
                 [idx |-> frame.rows[i].idx,
                  cells |-> [j \in 1..Len(frame.columns) |->
                               IF Converted(frame, j)
                               THEN CastInt(frame.rows[i].cells[j])
                               ELSE frame.rows[i].cells[j]]]]]

TriedColumns(frame) ==
    {frame.columns[j] : j \in {k \in 1..Len(frame.columns) : IsIdColumn(frame.columns[k])}}

\* lines 60-66
attempt_strip_and_lower(x, lower_case_columns) ==
    IF lower_case_columns THEN Lower(Strip(x)) ELSE Strip(x)

rename_columns(frame, lower_case_columns) ==
    [frame EXCEPT !.columns =
        [j \in 1..Len(frame.columns) |->
            attempt_strip_and_lower(frame.columns[j], lower_case_columns)]]

\* columns_to_filter is None, or a list: [none, cols]
NoFilter == [none |-> TRUE, cols |-> <<>>]
FilterOf(cols) == [none |-> FALSE, cols |-> cols]

\* the slip of testing `is not None` where the code tests the truth value
IsNotNone(columns_to_filter) == ~columns_to_filter.none

\* the truth value Python gives columns_to_filter (lines 68 and 71)
Truthy(columns_to_filter) == ~columns_to_filter.none /\ columns_to_filter.cols # <<>>

\* the slip of lower-casing the header and not the filter
keep_filter(columns_to_filter, lower_case_columns) == columns_to_filter

\* lines 68-69
lower_filter(columns_to_filter, lower_case_columns) ==
    IF lower_case_columns /\ Truthy(columns_to_filter)
    THEN FilterOf([i \in 1..Len(columns_to_filter.cols) |-> Lower(columns_to_filter.cols[i])])
    ELSE columns_to_filter

ColumnAt(frame, name) == CHOOSE j \in 1..Len(frame.columns) : frame.columns[j] = name

HasColumn(frame, name) == \E j \in 1..Len(frame.columns) : frame.columns[j] = name

\* line 72: data_frame[columns_to_filter]
select_columns(frame, cols) ==
    [columns |-> cols,
     dtypes |-> [k \in 1..Len(cols) |-> frame.dtypes[ColumnAt(frame, cols[k])]],
     rows |-> [i \in 1..Len(frame.rows) |->
                 [idx |-> frame.rows[i].idx,
                  cells |-> [k \in 1..Len(cols) |->
                               frame.rows[i].cells[ColumnAt(frame, cols[k])]]]]]

\* the slip of comparing with 'false' without stripping first
falsify_without_strip(x) ==
    IF x.t = "str" /\ Lower(x.s) = FalseToken THEN BoolV(FALSE) ELSE x

\* lines 74-83
attempt_strip_and_falsify(x) ==
    IF x.t = "str"
    THEN (IF Lower(Strip(x.s)) = FalseToken THEN BoolV(FALSE) ELSE StrV(Strip(x.s)))
    ELSE x

\* DataFrame.values: int and float columns together come out as floats
ValuesUpcast(frame) ==
    /\ \A j \in 1..Len(frame.dtypes) : frame.dtypes[j] \in {"int", "float"}
    /\ \E j \in 1..Len(frame.dtypes) : frame.dtypes[j] = "float"

ValueOf(frame, v) == IF ValuesUpcast(frame) /\ v.t = "int" THEN FloatV(10 * v.n) ELSE v

\* the slip of falsifying whatever strip_and_falsify_value says
as_lists_always_falsify(frame, strip_and_falsify_value) ==
    [i \in 1..Len(frame.rows) |->
        [j \in 1..Len(frame.columns) |->
            IF frame.rows[i].cells[j].t = "str"
            THEN (IF Lower(Strip(frame.rows[i].cells[j].s)) = FalseToken
                  THEN BoolV(FALSE) ELSE StrV(Strip(frame.rows[i].cells[j].s)))
            ELSE frame.rows[i].cells[j]]]

\* lines 91-100
as_lists(frame, strip_and_falsify_value) ==
    [i \in 1..Len(frame.rows) |->
        [j \in 1..Len(frame.columns) |->
            IF strip_and_falsify_value
            THEN attempt_strip_and_falsify(ValueOf(frame, frame.rows[i].cells[j]))
            ELSE ValueOf(frame, frame.rows[i].cells[j])]]

\* lines 103-113: a mapping is the sequence of its items, in column order
as_dicts(frame, strip_and_falsify_value) ==
    [i \in 1..Len(frame.rows) |->
        [j \in 1..Len(frame.columns) |->
            [k |-> frame.columns[j],
             v |-> IF strip_and_falsify_value
                   THEN attempt_strip_and_falsify(frame.rows[i].cells[j])
                   ELSE frame.rows[i].cells[j]]]]

Returned(records, frame, tr) ==
    [kind |-> "return", exc |-> "", records |-> records, frame |-> frame, tried |-> tr]
Raised(exc, tr) ==
    [kind |-> "raise", exc |-> exc, records |-> <<>>, frame |-> NoFrame, tried |-> tr]

\* read(stream, columns_to_filter, as_dict, strip_and_falsify_value,
\*      lower_case_columns) on the lines the stream still holds
read(lines, columns_to_filter, as_dict, strip_and_falsify_value, lower_case_columns) ==
    LET parsed == read_csv(lines) IN
    IF parsed.kind = "raise" THEN Raised(parsed.exc, {})
    ELSE
      LET df1 == dropna_all(parsed.frame)
          tr == TriedColumns(df1)
          df2 == rename_columns(coerce_ids(df1), lower_case_columns)
          flt == lower_filter(columns_to_filter, lower_case_columns)
      IN  IF Truthy(flt) /\ \E k \in 1..Len(flt.cols) : ~HasColumn(df2, flt.cols[k])
          THEN Raised("KeyError", tr)
          ELSE
            LET df3 == IF Truthy(flt) THEN select_columns(df2, flt.cols) ELSE df2
                df4 == dropna_all(df3)
            IN  Returned(IF as_dict THEN as_dicts(df4, strip_and_falsify_value)
                         ELSE as_lists(df4, strip_and_falsify_value),
                         df4, tr)

-----------------------------------------------------------------------------
(* CSVMultiPartParser.parse, lines 122-143 *)

\* six.text_type(exc): the text of each error that can occur here
ExcText(exc) ==
    CASE exc = "EmptyDataError" -> "No columns to parse from file"
      [] exc = "ParserError" -> "Error tokenizing data. C error: Expected 2 fields, saw 3"
      [] exc = "KeyError" -> "columns not in index"
      [] exc = "MultiPartParserError" -> "Invalid boundary in multipart"
      [] OTHER -> exc

ParseErrorPrefix == "Multipart form parse error - "

\* getattr(request, name, default)
GetAttr(attr, default) == IF attr.present THEN attr.value ELSE default

\* the last part carrying a field name: MultiValueDict.__getitem__
LastPart(parts, name) ==
    CHOOSE i \in 1..Len(parts) :
        /\ parts[i].file /\ parts[i].name = name
        /\ \A k \in (i + 1)..Len(parts) : ~(parts[k].file /\ parts[k].name = name)

\* files.items(): one (name, value) per key, in the order the keys first came
RECURSIVE files_items(_, _, _)
files_items(parts, i, seen) ==
    IF i > Len(parts) THEN <<>>
    ELSE IF parts[i].file /\ parts[i].name \notin seen
    THEN <<[name |-> parts[i].name, part |-> LastPart(parts, parts[i].name)]>>
         \o files_items(parts, i + 1, seen \cup {parts[i].name})
    ELSE files_items(parts, i + 1, seen)

ParseReturn(data, log) ==
    [kind |-> "return", exc |-> "", detail |-> <<>>, data |-> data, log |-> log]
ParseRaise(cause, log) ==
    [kind |-> "raise", exc |-> "ParseError",
     detail |-> <<ParseErrorPrefix, ExcText(cause)>>, data |-> <<>>, log |-> log]

\* the slip of leaving as_dict at read's own default when the request has no
\* csv_with_keys
read_file_default_dict(req, part) ==
    read(req.parts[part].body,
         GetAttr(req.csv_filter_columns, NoFilter),
         GetAttr(req.csv_with_keys, TRUE),
         TRUE, FALSE)

\* lines 137-140: the call of read for one uploaded file
read_file(req, part) ==
    read(req.parts[part].body,
         GetAttr(req.csv_filter_columns, NoFilter),
         GetAttr(req.csv_with_keys, FALSE),
         TRUE, FALSE)

\* the slip of catching the error per file and returning the files read so far
RECURSIVE collect_partial(_, _, _, _, _)
collect_partial(req, items, k, data, log) ==
    IF k > Len(items) THEN ParseReturn(data, log)
    ELSE
      LET r == read(req.parts[items[k].part].body,
                    GetAttr(req.csv_filter_columns, NoFilter),
                    GetAttr(req.csv_with_keys, FALSE), TRUE, FALSE)
      IN  IF r.kind = "raise" THEN ParseReturn(data, Append(log, items[k].part))
          ELSE collect_partial(req, items, k + 1,
                               Append(data, [k |-> items[k].name, v |-> r.records]),
                               Append(log, items[k].part))

\* lines 135-141: the loop over files.items(), from item k on
RECURSIVE collect(_, _, _, _, _)
collect(req, items, k, data, log) ==
    IF k > Len(items) THEN ParseReturn(data, log)
    ELSE
      LET r == read_file(req, items[k].part) IN
      IF r.kind = "raise" THEN ParseRaise(r.exc, Append(log, items[k].part))
      ELSE collect(req, items, k + 1,
                   Append(data, [k |-> items[k].name, v |-> r.records]),
                   Append(log, items[k].part))

\* lines 130-143
parse(req) ==
    IF ~req.envelope_ok THEN ParseRaise("MultiPartParserError", <<>>)
    ELSE collect(req, files_items(req.parts, 1, {}), 1, <<>>, <<>>)

-----------------------------------------------------------------------------
(* Inputs *)

H1 == <<"h", "1">>
CID == <<"c", "_", "i", "d">>

HeaderPool ==
    { <<H1, CID>>,
      << <<"H", "1">>, <<"c", "_", "i", "d", " ">> >>,
      << <<" ", "F", "a", "l", "s", "e", " ">>, <<"C", "_", "I", "D">> >> }

LongRow == << <<"a">>, <<"1">>, <<"z">> >>

RowPool ==
    { << <<"a">>, <<"1">> >>,
      << <<" ", "F", "a", "l", "s", "e", " ">>, <<"2">> >>,
      << <<"f", "a", "l", "s", "e">>, <<"x">> >>,
      << <<>>, <<"N", "A">> >>,
      << <<"f", " ">>, <<>> >>,
      << <<>>, <<"3">> >>,
      << <<"7">>, <<"1", ".", "5">> >>,
      << <<"T", "r", "u", "e">>, <<" ", "4", " ">> >> }

\* the stream of read's doctest (line 29)
Doctest ==
    << << <<"h", "1">>, <<"h", "2">>, <<"h", "3">> >>,
       << <<"a">>, <<"b">>, <<"f", "a", "l", "s", "e">> >>,
       << <<"d">>, <<"e">>, <<"f">> >>,
       << <<"g">>, <<"h">>, <<"F", "a", "l", "s", "e">> >> >>

SeqsUpTo(S, n) == UNION {[1..k -> S] : k \in 0..n}

\* a row with a field too many is malformed when it is not the first data row
\* (there the reader takes the extra field for an index column)
RowSeqs == {rs \in SeqsUpTo(RowPool \cup {LongRow}, MaxRows) : rs = <<>> \/ rs[1] # LongRow}

\* a file with a row of missing cells only and a row with a value in its
\* second column only
Sparse ==
    << << <<"H", "1">>, <<"c", "_", "i", "d", " ">> >>,
       << <<"a">>, <<"1">> >>,
       << <<>>, <<"N", "A">> >>,
       << <<" ">>, <<"3">> >> >>

Streams == {<<h>> \o rs : h \in HeaderPool, rs \in RowSeqs} \cup {Doctest, Sparse}

FilterPool ==
    { NoFilter, FilterOf(<<>>), FilterOf(<<CID, H1>>), FilterOf(<< <<"H", "1">> >>) }

NoCall ==
    [at |-> 0, columns_to_filter |-> NoFilter, as_dict |-> TRUE,
     strip_and_falsify_value |-> FALSE, lower_case_columns |-> FALSE]

NoRet == [kind |-> "none", exc |-> "", records |-> <<>>]

Malformed == << <<H1, CID>>, << <<"a">>, <<"1">> >>, LongRow >>
Plain == << <<H1, CID>>, << <<"a", " ">>, <<"1">> >>, << <<"F", "A", "L", "S", "E", " ">>, <<>> >> >>

BodyPool == {Doctest, Plain, Malformed}

FieldNames == {"f1", "f2"}

PartPool ==
    [name : FieldNames, file : {TRUE}, body : BodyPool]
    \cup [name : FieldNames, file : {FALSE}, body : {<<>>}]

Absent(default) == [present |-> FALSE, value |-> default]
Attr(value) == [present |-> TRUE, value |-> value]

Requests ==
    [parts : SeqsUpTo(PartPool, MaxParts),
     envelope_ok : BOOLEAN,
     csv_filter_columns : {Absent(NoFilter), Attr(FilterOf(<<H1>>)), Attr(FilterOf(<<CID, H1>>))},
     csv_with_keys : {Absent(FALSE), Attr(TRUE), Attr(FALSE)}]

NoRequest ==
    [parts |-> <<>>, envelope_ok |-> TRUE,
     csv_filter_columns |-> Absent(NoFilter), csv_with_keys |-> Absent(FALSE)]

NoParse == [kind |-> "none", exc |-> "", detail |-> <<>>, data |-> <<>>]

-----------------------------------------------------------------------------
(* The caller of read: a stream, then calls of read on it *)

Init ==
    /\ stream \in [lines : Streams, pos : {0}]
    /\ call = NoCall
    /\ data_frame = NoFrame
    /\ tried = {}
    /\ ret = NoRet
    /\ ncalls = 0
    /\ request = NoRequest
    /\ parse_ret = NoParse
    /\ read_log = <<>>

\* what the stream still holds; read_csv reads it to the end and never rewinds
Rest(s) == SubSeq(s.lines, s.pos + 1, Len(s.lines))

Read ==
    /\ ncalls < MaxCalls
    /\ \E f \in FilterPool, d \in BOOLEAN, sf \in BOOLEAN, lc \in BOOLEAN :
         LET r == read(Rest(stream), f, d, sf, lc) IN
         /\ call' = [at |-> stream.pos, columns_to_filter |-> f, as_dict |-> d,
                     strip_and_falsify_value |-> sf, lower_case_columns |-> lc]
         /\ ret' = [kind |-> r.kind, exc |-> r.exc, records |-> r.records]
         /\ data_frame' = r.frame
         /\ tried' = r.tried
    /\ stream' = [stream EXCEPT !.pos = Len(stream.lines)]
    /\ ncalls' = ncalls + 1
    /\ UNCHANGED <<request, parse_ret, read_log>>

Next == Read

Spec == Init /\ [][Next]_vars

-----------------------------------------------------------------------------
(* The framework: a request, then parse *)

ParseInit ==
    /\ stream = [lines |-> <<>>, pos |-> 0]
    /\ call = NoCall
    /\ data_frame = NoFrame
    /\ tried = {}
    /\ ret = NoRet
    /\ ncalls = 0
    /\ request \in Requests
    /\ parse_ret = NoParse
    /\ read_log = <<>>

Parse ==
    /\ parse_ret.kind = "none"
    /\ LET r == parse(request) IN
       /\ parse_ret' = [kind |-> r.kind, exc |-> r.exc, detail |-> r.detail, data |-> r.data]
       /\ read_log' = r.log
    /\ UNCHANGED <<stream, call, data_frame, tried, ret, ncalls, request>>

ParseNext == Parse

ParseSpec == ParseInit /\ [][ParseNext]_vars

-----------------------------------------------------------------------------
(* What the claims speak of, read off the state after a call of read *)

\* the lines the latest call found in the stream
Input == SubSeq(stream.lines, call.at + 1, Len(stream.lines))

ReadReturned == ncalls > 0 /\ ret.kind = "return"

\* the header name at position p, normalized as the call asked
NormName(p) ==
    IF call.lower_case_columns THEN Lower(Strip(Input[1][p])) ELSE Strip(Input[1][p])

\* the position in the header of the j-th column of the frame at line 91
PosOf(j) == CHOOSE p \in 1..Len(Input[1]) : NormName(p) = data_frame.columns[j]

\* the field the file holds for the i-th returned record and its j-th column
RawField(i, j) == Input[data_frame.rows[i].idx + 1][PosOf(j)]

\* the cell the reader made of that field
FrameCell(i, j) == data_frame.rows[i].cells[j]

\* the j-th cell of the i-th returned record
OutCell(i, j) == IF call.as_dict THEN ret.records[i][j].v ELSE ret.records[i][j]

Cells == {<<i, j>> \in (1..Len(ret.records)) \X (1..Len(data_frame.columns)) : TRUE}

Trimmed(s) == s = <<>> \/ (~IsSpace(s[1]) /\ ~IsSpace(s[Len(s)]))

-----------------------------------------------------------------------------
\* C3: after a call of read with strip_and_falsify_value=true that returns,
\* whatever as_dict is, every cell that was a string in the frame comes out
\* trimmed, as boolean false when its trimmed text is 'false' in any case and
\* as the trimmed string otherwise; every other cell (integer, float, boolean,
\* missing) comes out as it was (an integer only widened to a float where
\* DataFrame.values does so); the keys of mapping records are the normalized
\* header names, never a boolean.
C3_StripAndFalsify ==
    (ReadReturned /\ call.strip_and_falsify_value) =>
        /\ Len(ret.records) = Len(data_frame.rows)
        /\ \A c \in Cells :
             LET x == FrameCell(c[1], c[2])
                 y == OutCell(c[1], c[2])
             IN  /\ Len(ret.records[c[1]]) = Len(data_frame.columns)
                 /\ (x.t = "str" /\ Lower(Strip(x.s)) = FalseToken) => y = BoolV(FALSE)
                 /\ (x.t = "str" /\ Lower(Strip(x.s)) # FalseToken) =>
                        /\ y.t = "str" /\ Trimmed(y.s)
                        /\ Strip(x.s) = y.s
                 /\ x.t # "str" =>
                        \/ y = x
                        \/ (~call.as_dict /\ x.t = "int" /\ y = FloatV(10 * x.n))
                 /\ call.as_dict => ret.records[c[1]][c[2]].k = NormName(PosOf(c[2]))

\* C3's case: one returned table holds a padded 'False' that became the
\* boolean, a padded string that was trimmed and a number left alone
C3_Witness ==
    /\ ReadReturned /\ call.strip_and_falsify_value
    /\ \E c \in Cells :
         /\ FrameCell(c[1], c[2]).t = "str"
         /\ FrameCell(c[1], c[2]).s # FalseToken
         /\ OutCell(c[1], c[2]) = BoolV(FALSE)
    /\ \E c \in Cells :
         /\ FrameCell(c[1], c[2]).t = "str"
         /\ OutCell(c[1], c[2]).t = "str"
         /\ OutCell(c[1], c[2]).s # FrameCell(c[1], c[2]).s
    /\ \E c \in Cells : OutCell(c[1], c[2]).t \in {"int", "float"}

-----------------------------------------------------------------------------
\* the tokens of column j of the file are all boolean tokens or missing
BooleanColumn(j) ==
    \A i \in 1..(Len(Input) - 1) :
        IsNaTok(LStrip(Input[i + 1][PosOf(j)])) \/ IsBoolTok(LStrip(Input[i + 1][PosOf(j)]))

\* C4 as stated: with strip_and_falsify_value=false every textual cell comes
\* out as a string trimmed on both sides, and the tokens 'false' and 'False'
\* come out verbatim as strings, never as a boolean.
C4_Original ==
    (ReadReturned /\ ~call.strip_and_falsify_value) =>
        \A c \in Cells :
            LET y == OutCell(c[1], c[2])
                f == RawField(c[1], c[2])
            IN  /\ y.t = "str" => Trimmed(y.s)
                /\ Strip(f) \in {FalseToken, <<"F", "a", "l", "s", "e">>} =>
                       y = StrV(Strip(f))

\* C4 amended: with strip_and_falsify_value=false every textual cell comes out
\* as the string the reader made of the field: the whitespace before it
\* removed, the whitespace after it kept; read turns no string into a boolean,
\* and 'false' / 'False' come out verbatim as strings wherever their column
\* holds some text that is no boolean token.
C4_Amended ==
    (ReadReturned /\ ~call.strip_and_falsify_value) =>
        \A c \in Cells :
            LET y == OutCell(c[1], c[2])
                f == RawField(c[1], c[2])
            IN  /\ y.t = "str" => (y.s = LStrip(f) /\ RStrip(y.s) = Strip(f))
                /\ FrameCell(c[1], c[2]).t = "str" => y = FrameCell(c[1], c[2])
                /\ (/\ LStrip(f) \in {FalseToken, <<"F", "a", "l", "s", "e">>}
                    /\ ~BooleanColumn(c[2])) => y = StrV(LStrip(f))

\* C4's case: a returned table with a string that keeps its trailing blank
\* and a 'false' that is still the string
C4_Witness ==
    /\ ReadReturned /\ ~call.strip_and_falsify_value
    /\ \E c \in Cells : OutCell(c[1], c[2]).t = "str" /\ ~Trimmed(OutCell(c[1], c[2]).s)
    /\ \E c \in Cells : OutCell(c[1], c[2]) = StrV(FalseToken)

-----------------------------------------------------------------------------
\* the frame the reader makes of the input, before read touches it
Parsed == read_csv(Input)

ParsedOk == ncalls > 0 /\ Parsed.kind = "ok"

\* the label of header position p as the reader parsed it
Label(p) == LStrip(Input[1][p])

\* what the reader made of data row i, position p
OrigCell(i, p) == Parsed.frame.rows[i].cells[p]

\* the data rows of the file that hold some value
PresentRows == {i \in 1..(Len(Input) - 1) :
                   \E p \in 1..Len(Input[1]) : ~IsNaTok(LStrip(Input[i + 1][p]))}

\* every value the column holds when line 56 runs can be made an integer
AllCoerce(p) == \A i \in PresentRows : CanCastInt(OrigCell(i, p))

\* the names the call asks for, as line 72 looks them up
Wanted ==
    IF call.lower_case_columns
    THEN [k \in 1..Len(call.columns_to_filter.cols) |-> Lower(call.columns_to_filter.cols[k])]
    ELSE call.columns_to_filter.cols

Filtering == ~call.columns_to_filter.none /\ call.columns_to_filter.cols # <<>>

WantedExist ==
    \A k \in 1..Len(Wanted) : \E p \in 1..Len(Input[1]) : NormName(p) = Wanted[k]

AllNames == [p \in 1..Len(Input[1]) |-> NormName(p)]

\* C5: after a call of read that returns, a column whose parsed label ends
\* with _id holds integers in every row when every value it held could be made
\* an integer, and holds exactly what the reader parsed, in every row, when
\* one value could not; no other column is changed; and a value that cannot
\* be made an integer never makes read raise.
C5_CoercionAllOrNothing ==
    /\ ReadReturned =>
         \A c \in Cells :
             LET p == PosOf(c[2])
                 x == OrigCell(data_frame.rows[c[1]].idx, p)
             IN  IF EndsWith(Label(p), IdSuffix) /\ AllCoerce(p)
                 THEN FrameCell(c[1], c[2]).t = "int" /\ FrameCell(c[1], c[2]) = CastInt(x)
                 ELSE FrameCell(c[1], c[2]) = x
    /\ (ParsedOk /\ (Filtering => WantedExist)) => ReadReturned

\* C5's case: a returned _id column that kept '1' as text beside an 'x'
C5_Witness ==
    /\ ReadReturned
    /\ \E j \in 1..Len(data_frame.columns) :
         /\ EndsWith(Label(PosOf(j)), IdSuffix)
         /\ \E a, b \in 1..Len(data_frame.rows) :
              /\ FrameCell(a, j).t = "str" /\ CanCastInt(FrameCell(a, j))
              /\ FrameCell(b, j).t = "str" /\ ~CanCastInt(FrameCell(b, j))

-----------------------------------------------------------------------------
\* C6 as stated: the columns line 56 is run for are those whose normalized
\* name (trimmed, lower-cased when asked) ends with _id.
C6_Original ==
    ParsedOk =>
        \A p \in 1..Len(Input[1]) :
            (Label(p) \in tried) <=> EndsWith(NormName(p), IdSuffix)

\* C6 amended: the columns line 56 is run for are those whose label as the
\* reader parsed it, neither trimmed at the end nor lower-cased, ends with
\* _id; a column whose name ends with _id only once normalized is returned as
\* parsed, and one whose parsed label ends with _id and whose values all
\* coerce is returned as integers.
C6_Amended ==
    /\ ParsedOk =>
         \A p \in 1..Len(Input[1]) :
             (Label(p) \in tried) <=> EndsWith(Label(p), IdSuffix)
    /\ ReadReturned =>
         \A c \in Cells :
             LET p == PosOf(c[2]) IN
             /\ ~EndsWith(Label(p), IdSuffix) =>
                    FrameCell(c[1], c[2]) = OrigCell(data_frame.rows[c[1]].idx, p)
             /\ (EndsWith(Label(p), IdSuffix) /\ AllCoerce(p)) =>
                    FrameCell(c[1], c[2]).t = "int"

\* C6's case: a column named 'c_id ' or 'C_ID', normalized to a name ending
\* with _id, whose floats could all be made integers and were not
C6_Witness ==
    /\ ReadReturned
    /\ \E c \in Cells :
         /\ ~EndsWith(Label(PosOf(c[2])), IdSuffix)
         /\ EndsWith(NormName(PosOf(c[2])), IdSuffix)
         /\ AllCoerce(PosOf(c[2]))
         /\ FrameCell(c[1], c[2]).t = "float"

-----------------------------------------------------------------------------
\* the records hold the columns `names`, in that order, cell for cell
RecordsHold(names) ==
    /\ data_frame.columns = names
    /\ \A i \in 1..Len(ret.records) :
         /\ Len(ret.records[i]) = Len(names)
         /\ \A j \in 1..Len(names) :
              /\ call.as_dict => ret.records[i][j].k = names[j]
              /\ IsNa(OutCell(i, j)) <=> IsNaTok(LStrip(RawField(i, j)))
              /\ OutCell(i, j).t = "str" => Strip(OutCell(i, j).s) = Strip(RawField(i, j))

\* C7 as stated: whenever columns_to_filter is not None, the empty list
\* included, the records hold exactly the named columns in the given order,
\* or read raises a lookup error when a name is not in the header.
C7_Original ==
    (ParsedOk /\ ~call.columns_to_filter.none) =>
        IF WantedExist
        THEN ReadReturned /\ RecordsHold(Wanted)
        ELSE ret.kind = "raise" /\ ret.exc = "KeyError" /\ ret.records = <<>>

\* C7 amended: whenever columns_to_filter is a non-empty list the records hold
\* exactly the named columns in the given order, or read raises a lookup error
\* and returns nothing when a name is not in the normalized header; when it is
\* None or the empty list every column is kept, in header order.
C7_Amended ==
    ParsedOk =>
        IF Filtering
        THEN IF WantedExist
             THEN ReadReturned /\ RecordsHold(Wanted)
             ELSE ret.kind = "raise" /\ ret.exc = "KeyError" /\ ret.records = <<>>
        ELSE ReadReturned /\ RecordsHold(AllNames)

\* C7's case: records of two columns returned in the order asked for, the
\* reverse of the header's
C7_Witness ==
    /\ ReadReturned /\ Filtering
    /\ Len(ret.records) > 0
    /\ Len(Wanted) = 2
    /\ PosOf(1) > PosOf(2)
    /\ OutCell(1, 1) # OutCell(1, 2)

-----------------------------------------------------------------------------
\* C8: with lower_case_columns=true a filter entry finds a header column
\* exactly when the two are equal ignoring case (and surrounding blanks of the
\* header), and the returned columns and mapping keys are the lower-cased
\* names; with lower_case_columns=false an entry finds a column only when it
\* equals the trimmed header name, case included, and names are only trimmed.
C8_LowerCaseColumns ==
    /\ (ParsedOk /\ Filtering) =>
         LET cols == call.columns_to_filter.cols
             found(k) ==
                 IF call.lower_case_columns
                 THEN \E p \in 1..Len(Input[1]) : Lower(cols[k]) = Lower(Strip(Input[1][p]))
                 ELSE \E p \in 1..Len(Input[1]) : cols[k] = Strip(Input[1][p])
         IN  /\ ReadReturned <=> \A k \in 1..Len(cols) : found(k)
             /\ ReadReturned =>
                  data_frame.columns =
                      [k \in 1..Len(cols) |->
                          IF call.lower_case_columns THEN Lower(cols[k]) ELSE cols[k]]
    /\ ReadReturned =>
         /\ \A j \in 1..Len(data_frame.columns) :
              \E p \in 1..Len(Input[1]) :
                  data_frame.columns[j] =
                      (IF call.lower_case_columns THEN Lower(Strip(Input[1][p]))
                       ELSE Strip(Input[1][p]))
         /\ call.as_dict =>
              \A c \in Cells : ret.records[c[1]][c[2]].k = data_frame.columns[c[2]]

\* C8's case: header 'H1', filter ['H1'], lower_case_columns: a mapping with
\* the one key 'h1'
C8_Witness ==
    /\ ReadReturned /\ call.lower_case_columns /\ call.as_dict
    /\ call.columns_to_filter = FilterOf(<< <<"H", "1">> >>)
    /\ Input[1][1] = <<"H", "1">>
    /\ Len(ret.records) > 0
    /\ Len(ret.records[1]) = 1
    /\ ret.records[1][1].k = <<"h", "1">>

-----------------------------------------------------------------------------
\* the header positions the call retains
RetainedPos ==
    IF Filtering
    THEN {p \in 1..Len(Input[1]) : \E k \in 1..Len(Wanted) : NormName(p) = Wanted[k]}
    ELSE 1..Len(Input[1])

\* the data rows with a value in some retained column
KeptRows ==
    {i \in 1..(Len(Input) - 1) : \E p \in RetainedPos : ~IsNaTok(LStrip(Input[i + 1][p]))}

\* C9: the records returned are the data rows that hold a value in some
\* retained column, one record each, in file order; no other row is dropped
\* and the header is no record.
C9_RowsKept ==
    ReadReturned =>
        /\ Len(ret.records) = Len(data_frame.rows)
        /\ {data_frame.rows[r].idx : r \in 1..Len(data_frame.rows)} = KeptRows
        /\ \A r \in 1..(Len(data_frame.rows) - 1) :
               data_frame.rows[r].idx < data_frame.rows[r + 1].idx
        /\ \A c \in Cells :
               IsNa(OutCell(c[1], c[2])) <=> IsNaTok(LStrip(RawField(c[1], c[2])))

\* C9's case: a call that returned a record, dropped a row of missing cells
\* only, and dropped a row whose only values were in columns filtered out
C9_Witness ==
    /\ ReadReturned /\ Filtering
    /\ Len(ret.records) > 0
    /\ \E i \in 1..(Len(Input) - 1) : i \notin PresentRows
    /\ \E i \in PresentRows : i \notin KeptRows

-----------------------------------------------------------------------------
\* C10 as stated (the doctest of read): a second and later call of read on
\* the same stream, not rewound, still returns the three data rows.
C10_Doctest ==
    (stream.lines = Doctest /\ ncalls >= 2) =>
        (ret.kind = "return" /\ Len(ret.records) = 3)

-----------------------------------------------------------------------------
(* What the claims speak of, read off the state after parse *)

ParseDone == parse_ret.kind # "none"

FileParts == {i \in 1..Len(request.parts) : request.parts[i].file}

FileNames == {request.parts[i].name : i \in FileParts}

\* the file parts that are the last of their field name
LastParts ==
    {i \in FileParts :
        \A k \in FileParts : request.parts[k].name = request.parts[i].name => k <= i}

LastOf(name) == CHOOSE i \in LastParts : request.parts[i].name = name

\* read as the adapter is said to call it for part i
ReadOf(i) ==
    read(request.parts[i].body,
         IF request.csv_filter_columns.present
         THEN request.csv_filter_columns.value ELSE NoFilter,
         IF request.csv_with_keys.present THEN request.csv_with_keys.value ELSE FALSE,
         TRUE, FALSE)

Logged == {read_log[k] : k \in 1..Len(read_log)}

Keys == {parse_ret.data[k].k : k \in 1..Len(parse_ret.data)}

\* the result is one ParseError whose message embeds `text`, and no mapping
OneParseError(texts) ==
    /\ parse_ret.kind = "raise" /\ parse_ret.exc = "ParseError"
    /\ Len(parse_ret.detail) = 2
    /\ parse_ret.detail[1] = "Multipart form parse error - "
    /\ parse_ret.detail[2] \in texts
    /\ parse_ret.data = <<>>

\* the result is the mapping with one key per field name of a file part
FullMapping ==
    /\ parse_ret.kind = "return"
    /\ Keys = FileNames
    /\ Len(parse_ret.data) = Cardinality(FileNames)

\* C1 as stated: if the decoder raises, or read raises for any file part,
\* parse raises one ParseError embedding the error's text and returns no
\* mapping; otherwise it returns the full mapping with every file part parsed.
C1_Original ==
    ParseDone =>
        IF ~request.envelope_ok
        THEN OneParseError({"Invalid boundary in multipart"})
        ELSE IF \E i \in FileParts : ReadOf(i).kind = "raise"
        THEN OneParseError({ExcText(ReadOf(i).exc) : i \in FileParts})
        ELSE FullMapping /\ Logged = FileParts

\* C1 amended: parse reads the last file part of each field name; if the
\* decoder raises, or read raises for one of those parts, parse raises one
\* ParseError embedding the error's text and returns no mapping, whatever was
\* parsed before; otherwise it returns the full mapping, one key per field
\* name, with each of those parts parsed.
C1_Amended ==
    ParseDone =>
        IF ~request.envelope_ok
        THEN OneParseError({"Invalid boundary in multipart"}) /\ read_log = <<>>
        ELSE IF \E i \in LastParts : ReadOf(i).kind = "raise"
        THEN /\ OneParseError({ExcText(ReadOf(i).exc) :
                                 i \in {k \in LastParts : ReadOf(k).kind = "raise"}})
             /\ Logged \subseteq LastParts
        ELSE FullMapping /\ Logged = LastParts

\* C1's case: parse raised after a first file had been read without error
C1_Witness ==
    /\ parse_ret.kind = "raise"
    /\ Len(read_log) >= 2
    /\ ReadOf(read_log[1]).kind = "return"
    /\ Len(ReadOf(read_log[1]).records) > 0
    /\ ReadOf(read_log[2]).kind = "raise"
    /\ parse_ret.data = <<>>

-----------------------------------------------------------------------------
\* the value under each key is what read returns for `part(key)`, called with
\* the request's csv_filter_columns (None when absent), its csv_with_keys
\* (false when absent), strip_and_falsify_value=true, lower_case_columns=false
ValuesFrom(part(_)) ==
    \A k \in 1..Len(parse_ret.data) :
        /\ parse_ret.data[k].k \in FileNames
        /\ parse_ret.data[k].v = ReadOf(part(parse_ret.data[k].k)).records

\* C2 as stated: when parse succeeds read was called for every file part,
\* parts sharing a field name included; the keys are the field names of the
\* file parts, each value what read returns for that part; form fields that
\* are no files give no key.
C2_Original ==
    parse_ret.kind = "return" =>
        /\ Logged = FileParts
        /\ Len(read_log) = Cardinality(FileParts)
        /\ FullMapping
        /\ ValuesFrom(LastOf)

\* C2 amended: when parse succeeds read was called once per field name of the
\* file parts, on the last part carrying that name (earlier parts of the name
\* are never read); the keys are the field names of the file parts, each value
\* what read returns for that last part; form fields that are no files give no
\* key.
C2_Amended ==
    parse_ret.kind = "return" =>
        /\ Logged = LastParts
        /\ Len(read_log) = Cardinality(LastParts)
        /\ FullMapping
        /\ ValuesFrom(LastOf)
        /\ \A i \in 1..Len(request.parts) :
               (request.parts[i].name \in Keys) => (request.parts[i].name \in FileNames)

\* C2's case: parse returned for a request with two files under one field
\* name, holding different tables, and a form field that is no file
C2_Witness ==
    /\ parse_ret.kind = "return"
    /\ ~request.csv_with_keys.present
    /\ \E i, k \in FileParts :
         /\ i < k
         /\ request.parts[i].name = request.parts[k].name
         /\ request.parts[i].body # request.parts[k].body
    /\ \E i \in 1..Len(request.parts) :
         ~request.parts[i].file /\ request.parts[i].name \notin Keys
    /\ \E k \in 1..Len(parse_ret.data) : Len(parse_ret.data[k].v) > 0

====
